---- MODULE Spec2Model ----
(***************************************************************************)
(* qbit-cleanup: one run of main() in src/src/main.rs.                     *)
(*                                                                         *)
(* The run parses the endpoint, logs in, fetches the torrent list, samples *)
(* the wall clock once and then walks the list: a torrent not older than   *)
(* the age threshold is skipped, a torrent without a ratio is left alone,  *)
(* and a torrent whose predicted one-year ratio is below the threshold is  *)
(* deleted (or only reported, with --dry-run).  Every `?` ends the run     *)
(* with exit code 1.                                                       *)
(*                                                                         *)
(* Numbers.  u64 values that can leave the range of TLC's integers (the    *)
(* --age flag, the i64 -> u64 cast of added_on, the age threshold) are     *)
(* little-endian sequences of 16-bit limbs, four limbs to a u64.  The wall *)
(* clock and a torrent's age are below 2^31 and are plain integers.  f64   *)
(* values are IEEE-754 doubles: every operation rounds to the nearest      *)
(* double, and inf, -inf and NaN are values of their own.                  *)
(***************************************************************************)
EXTENDS Integers, Sequences, FiniteSets, TLC

VARIABLES pc, cli, clock, ticks, torrents, now_secs, now_samples,
          age_threshold_secs, idx, decisions, calls, exit_code

vars == <<pc, cli, clock, ticks, torrents, now_secs, now_samples,
          age_threshold_secs, idx, decisions, calls, exit_code>>

----------------------------------------------------------------------------
(* Bounds of the model. *)

MaxTorrents == 2

MaxTicks == 1

----------------------------------------------------------------------------
(* Option<T>: None is the empty sequence, Some(v) is <<v>>. *)

None == <<>>

Some(v) == <<v>>

UnwrapOr(opt, default) == IF opt = None THEN default ELSE opt[1]

----------------------------------------------------------------------------
(* u64 arithmetic on 16-bit limbs. *)

LimbBase == 65536

U64FromNat(n) == <<n % LimbBase, (n \div LimbBase) % LimbBase, 0, 0>>

LimbAt(x, i) == IF i <= Len(x) THEN x[i] ELSE 0

RECURSIVE LeqFrom(_, _, _)
LeqFrom(a, b, i) ==
    IF i = 0 THEN TRUE
    ELSE IF LimbAt(a, i) # LimbAt(b, i) THEN LimbAt(a, i) < LimbAt(b, i)
    ELSE LeqFrom(a, b, i - 1)

LeqLimbs(a, b) == LeqFrom(a, b, IF Len(a) > Len(b) THEN Len(a) ELSE Len(b))

RECURSIVE MulLimbs(_, _, _)
MulLimbs(x, c, carry) ==
    IF x = <<>> THEN <<carry>>
    ELSE LET p == Head(x) * c + carry
         IN  <<p % LimbBase>> \o MulLimbs(Tail(x), c, p \div LimbBase)

MulOverflows(x, c) == MulLimbs(x, c, 0)[5] # 0

WrappingMul(x, c) == SubSeq(MulLimbs(x, c, 0), 1, 4)

RECURSIVE AddOne(_)
AddOne(x) ==
    IF x = <<>> THEN <<>>
    ELSE IF Head(x) + 1 < LimbBase THEN <<Head(x) + 1>> \o Tail(x)
    ELSE <<0>> \o AddOne(Tail(x))

AsU64(x) ==
    IF x >= 0 THEN U64FromNat(x)
    ELSE LET m == U64FromNat(-x)
         IN  AddOne([i \in 1..4 |-> LimbBase - 1 - m[i]])

SaturatingSub(n, a) ==
    IF LeqLimbs(U64FromNat(n), a) THEN 0 ELSE n - (a[1] + a[2] * LimbBase)

----------------------------------------------------------------------------
(* f64: IEEE-754 binary64 with round-to-nearest, ties-to-even.  A value is *)
(* [kind, neg, hi, lo, exp]: kind is "finite", "inf" or "nan"; a finite    *)
(* value is (hi * 2^28 + lo) * 2^exp up to sign, where the significand     *)
(* hi * 2^28 + lo is 0 (zero), in [2^52, 2^53) (normal) or below 2^52 with *)
(* exp = -1074 (subnormal).  Wide integers in the middle of an operation   *)
(* are little-endian sequences of 14-bit limbs.                            *)

W14 == 2^14

W28 == 2^28

MinExp == 0 - 1074

MaxExp == 1023 - 52

F64Nan == [kind |-> "nan", neg |-> FALSE, hi |-> 0, lo |-> 0, exp |-> 0]

F64Inf(neg) == [kind |-> "inf", neg |-> neg, hi |-> 0, lo |-> 0, exp |-> 0]

F64Zero(neg) == [kind |-> "finite", neg |-> neg, hi |-> 0, lo |-> 0, exp |-> MinExp]

IsZero(x) == x.kind = "finite" /\ x.hi = 0 /\ x.lo = 0

WLimb(w, i) == IF i >= 1 /\ i <= Len(w) THEN w[i] ELSE 0

RECURSIVE SmallBitLen(_)
SmallBitLen(x) == IF x = 0 THEN 0 ELSE 1 + SmallBitLen(x \div 2)

RECURSIVE TopLimb(_, _)
TopLimb(w, i) == IF i = 0 THEN 0 ELSE IF w[i] # 0 THEN i ELSE TopLimb(w, i - 1)

WBitLen(w) ==
    LET t == TopLimb(w, Len(w))
    IN  IF t = 0 THEN 0 ELSE (t - 1) * 14 + SmallBitLen(w[t])

WBit(w, k) == (WLimb(w, k \div 14 + 1) \div 2^(k % 14)) % 2

WLowNonzero(w, k) ==
    \E i \in 1..Len(w) :
        \/ i <= k \div 14 /\ w[i] # 0
        \/ i = k \div 14 + 1 /\ w[i] % 2^(k % 14) # 0

WShiftRight(w, d) ==
    LET q == d \div 14
        r == d % 14
    IN  [i \in 1..4 |-> (WLimb(w, i + q) \div 2^r)
                        + (WLimb(w, i + q + 1) % 2^r) * 2^(14 - r)]

WShiftLeft(w, s) ==
    LET q == s \div 14
        r == s % 14
    IN  [i \in 1..4 |-> (WLimb(w, i - q) % 2^(14 - r)) * 2^r
                        + (WLimb(w, i - q - 1) \div 2^(14 - r))]

RECURSIVE WInc(_)
WInc(w) ==
    IF w = <<>> THEN <<>>
    ELSE IF Head(w) + 1 < W14 THEN <<Head(w) + 1>> \o Tail(w)
    ELSE <<0>> \o WInc(Tail(w))

Limbs(hi, lo) == <<lo % W14, lo \div W14, hi % W14, hi \div W14>>

(* The f64 nearest to (+/-) (w + fraction) * 2^e, where sticky tells that  *)
(* the fraction below w is not zero.                                       *)
RoundPack(neg, w, e, sticky) ==
    LET n == WBitLen(w)
        d == IF n - 53 > MinExp - e THEN n - 53 ELSE MinExp - e
        m0 == IF d > 0 THEN WShiftRight(w, d) ELSE WShiftLeft(w, -d)
        guard == d > 0 /\ WBit(w, d - 1) = 1
        st == sticky \/ (d > 1 /\ WLowNonzero(w, d - 1))
        up == guard /\ (st \/ m0[1] % 2 = 1)
        m1 == IF up THEN WInc(m0) ELSE m0
        carry == m1[4] = 2^11
        m == IF carry THEN <<0, 0, 0, 2^10>> ELSE m1
        ex == IF carry THEN e + d + 1 ELSE e + d
    IN  IF n = 0 THEN F64Zero(neg)
        ELSE IF ex > MaxExp THEN F64Inf(neg)
        ELSE [kind |-> "finite", neg |-> neg,
              hi |-> m[3] + m[4] * W14, lo |-> m[1] + m[2] * W14, exp |-> ex]

Abs(n) == IF n < 0 THEN -n ELSE n

(* `as f64` of an integer below 2^31 in magnitude *)
F64FromInt(n) ==
    RoundPack(n < 0, <<Abs(n) % W14, (Abs(n) \div W14) % W14, Abs(n) \div W28>>,
              0, FALSE)

SumCol(a, b, k) ==
    LET T(i) == IF k - i >= 0 /\ k - i <= 3 THEN a[i + 1] * b[k - i + 1] ELSE 0
    IN  T(0) + T(1) + T(2) + T(3)

RECURSIVE MulCols(_, _, _, _)
MulCols(a, b, k, carry) ==
    IF k = 8 THEN <<>>
    ELSE LET s == SumCol(a, b, k) + carry
         IN  <<s % W14>> \o MulCols(a, b, k + 1, s \div W14)

F64Mul(a, b) ==
    IF a.kind = "nan" \/ b.kind = "nan" THEN F64Nan
    ELSE IF a.kind = "inf" \/ b.kind = "inf"
    THEN IF IsZero(a) \/ IsZero(b) THEN F64Nan ELSE F64Inf(a.neg # b.neg)
    ELSE RoundPack(a.neg # b.neg,
                   MulCols(Limbs(a.hi, a.lo), Limbs(b.hi, b.lo), 0, 0),
                   a.exp + b.exp, FALSE)

(* The significand shifted up to 56 bits, four full limbs with the top bit *)
(* set, and the exponent that goes with it.                                *)
Normalized(x) ==
    LET w == Limbs(x.hi, x.lo)
        s == 56 - WBitLen(w)
    IN  [m |-> WShiftLeft(w, s), exp |-> x.exp - s]

RECURSIVE WLeqFrom(_, _, _)
WLeqFrom(a, b, i) ==
    IF i = 0 THEN TRUE
    ELSE IF WLimb(a, i) # WLimb(b, i) THEN WLimb(a, i) < WLimb(b, i)
    ELSE WLeqFrom(a, b, i - 1)

WLeq(a, b) == WLeqFrom(a, b, IF Len(a) > Len(b) THEN Len(a) ELSE Len(b))

RECURSIVE WMulSmall(_, _, _)
WMulSmall(w, c, carry) ==
    IF w = <<>> THEN <<carry>>
    ELSE LET p == Head(w) * c + carry
         IN  <<p % W14>> \o WMulSmall(Tail(w), c, p \div W14)

(* a - b for a >= b, limb by limb from position i with a borrow *)
RECURSIVE WSubFrom(_, _, _, _)
WSubFrom(a, b, i, borrow) ==
    IF i > Len(a) THEN <<>>
    ELSE LET t == a[i] - WLimb(b, i) - borrow
         IN  IF t >= 0 THEN <<t>> \o WSubFrom(a, b, i + 1, 0)
             ELSE <<t + W14>> \o WSubFrom(a, b, i + 1, 1)

(* Long division in base 2^14: n more quotient digits of r / y, where r < y *)
(* and the top limb of y is at least 2^13, so that the digit estimated     *)
(* from the two top limbs of the remainder is at most 2 too large.         *)
RECURSIVE DivDigits(_, _, _)
DivDigits(r, y, n) ==
    IF n = 0 THEN [digits |-> <<>>, sticky |-> r # <<0, 0, 0, 0>>]
    ELSE LET rb == <<0>> \o r
             e == (r[4] * W14 + r[3]) \div y[4]
             qhat == IF e > W14 - 1 THEN W14 - 1 ELSE e
             q == IF WLeq(WMulSmall(y, qhat, 0), rb) THEN qhat
                  ELSE IF WLeq(WMulSmall(y, qhat - 1, 0), rb) THEN qhat - 1
                  ELSE qhat - 2
             rest == DivDigits(SubSeq(WSubFrom(rb, WMulSmall(y, q, 0), 1, 0), 1, 4),
                               y, n - 1)
         IN  [digits |-> rest.digits \o <<q>>, sticky |-> rest.sticky]

F64Div(a, b) ==
    IF a.kind = "nan" \/ b.kind = "nan" THEN F64Nan
    ELSE IF a.kind = "inf"
    THEN IF b.kind = "inf" THEN F64Nan ELSE F64Inf(a.neg # b.neg)
    ELSE IF b.kind = "inf" THEN F64Zero(a.neg # b.neg)
    ELSE IF IsZero(b)
    THEN IF IsZero(a) THEN F64Nan ELSE F64Inf(a.neg # b.neg)
    ELSE IF IsZero(a) THEN F64Zero(a.neg # b.neg)
    ELSE LET x == Normalized(a)
             y == Normalized(b)
             q4 == IF WLeq(y.m, x.m) THEN 1 ELSE 0
             r == IF q4 = 1 THEN WSubFrom(x.m, y.m, 1, 0) ELSE x.m
             q == DivDigits(r, y.m, 4)
         IN  RoundPack(a.neg # b.neg, q.digits \o <<q4>>, x.exp - y.exp - 56,
                       q.sticky)

(* |a| < |b| for two values that are not NaN and not zero *)
MagnitudeLt(a, b) ==
    IF a.kind = "inf" THEN FALSE
    ELSE IF b.kind = "inf" THEN TRUE
    ELSE \/ a.exp < b.exp
         \/ a.exp = b.exp /\ a.hi < b.hi
         \/ a.exp = b.exp /\ a.hi = b.hi /\ a.lo < b.lo

F64Sign(x) == IF IsZero(x) THEN 0 ELSE IF x.neg THEN -1 ELSE 1

F64Lt(a, b) ==
    IF a.kind = "nan" \/ b.kind = "nan" THEN FALSE
    ELSE IF F64Sign(a) # F64Sign(b) THEN F64Sign(a) < F64Sign(b)
    ELSE IF F64Sign(a) = 1 THEN MagnitudeLt(a, b)
    ELSE IF F64Sign(a) = -1 THEN MagnitudeLt(b, a)
    ELSE FALSE

----------------------------------------------------------------------------
(* Inputs: the command line, the wall clock and the service's answers. *)

SecondsPerDay == 24 * 3600

ClockStart == 400 * SecondsPerDay

(* a wall clock set before 1970-01-01 *)
PreEpochClock == 0 - 5

ClockChoices == {PreEpochClock, ClockStart}

AgeOverflow == <<29322, 17670, 49710, 0>>

AgeChoices == {U64FromNat(0), U64FromNat(100), AgeOverflow}

RatioChoices == {F64FromInt(0), F64FromInt(1), F64FromInt(219)}

TorrentChoices ==
    { [added_on |-> Some(ClockStart - 65 * SecondsPerDay), ratio |-> Some(F64FromInt(39))],
      [added_on |-> Some(ClockStart - 50 * SecondsPerDay), ratio |-> None],
      [added_on |-> Some(ClockStart - 365 * SecondsPerDay), ratio |-> None],
      [added_on |-> Some(ClockStart - 365 * SecondsPerDay), ratio |-> Some(F64FromInt(1))],
      [added_on |-> Some(ClockStart - 365 * SecondsPerDay), ratio |-> Some(F64FromInt(-1))],
      [added_on |-> Some(ClockStart - 200 * SecondsPerDay), ratio |-> Some(F64FromInt(1))],
      [added_on |-> Some(-1), ratio |-> Some(F64FromInt(1))],
      [added_on |-> None, ratio |-> Some(F64FromInt(1))],
      [added_on |-> Some(ClockStart + 5), ratio |-> Some(F64FromInt(1))] }

HashNames == <<"h1", "h2", "h3", "h4">>

Snapshots ==
    UNION { { [i \in 1..n |-> [hash |-> Some(HashNames[i]),
                               added_on |-> f[i].added_on,
                               ratio |-> f[i].ratio]] :
              f \in [1..n -> TorrentChoices] } : n \in 0..MaxTorrents }

----------------------------------------------------------------------------
(* The run. *)

Init ==
    /\ pc = "parse"
    /\ cli \in [age : AgeChoices, ratio : RatioChoices, dry_run : BOOLEAN]
    /\ clock \in ClockChoices
    /\ ticks = 0
    /\ torrents = <<>>
    /\ now_secs = 0
    /\ now_samples = 0
    /\ age_threshold_secs = U64FromNat(0)
    /\ idx = 0
    /\ decisions = <<>>
    /\ calls = <<>>
    /\ exit_code = None

Running == pc \in {"parse", "login", "list", "clock", "loop"}

(* The wall clock moves on while the run is under way. *)
Tick ==
    /\ Running
    /\ ticks < MaxTicks
    /\ clock' = clock + 1
    /\ ticks' = ticks + 1
    /\ UNCHANGED <<pc, cli, torrents, now_secs, now_samples, age_threshold_secs,
                   idx, decisions, calls, exit_code>>

(* The error of a call dropped instead of returned. *)
TryIgnoringErr(ok, next) == pc' = next /\ UNCHANGED exit_code

(* `expr?` in main: Ok goes on to the next step, Err returns from main, *)
(* which ends the process with exit code 1.                            *)
Try(ok, next) ==
    IF ok
    THEN pc' = next /\ UNCHANGED exit_code
    ELSE pc' = "failed" /\ exit_code' = Some(1)

ParseEndpoint ==
    /\ pc = "parse"
    /\ \E valid \in BOOLEAN : Try(valid, "login")
    /\ UNCHANGED <<cli, clock, ticks, torrents, now_secs, now_samples,
                   age_threshold_secs, idx, decisions, calls>>

Login ==
    /\ pc = "login"
    /\ \E ok \in BOOLEAN :
          /\ calls' = Append(calls, [op |-> "login", ok |-> ok, hashes |-> <<>>])
          /\ Try(ok, "list")
    /\ UNCHANGED <<cli, clock, ticks, torrents, now_secs, now_samples,
                   age_threshold_secs, idx, decisions>>

GetTorrentList ==
    /\ pc = "list"
    /\ \E ok \in BOOLEAN :
          /\ calls' = Append(calls, [op |-> "get_torrent_list", ok |-> ok,
                                     hashes |-> <<>>])
          /\ IF ok
             THEN \E snapshot \in Snapshots : torrents' = snapshot
             ELSE UNCHANGED torrents
          /\ Try(ok, "clock")
    /\ UNCHANGED <<cli, clock, ticks, now_secs, now_samples,
                   age_threshold_secs, idx, decisions>>

(* Lines 88-93: SystemTime::now() and cli.age * 24 * 3600.  A clock before *)
(* the Unix epoch makes duration_since fail and expect() panic.  The       *)
(* product is a u64 product: with overflow checks (debug profile) an       *)
(* overflow panics, without them (release profile) it wraps.               *)
ThresholdOverflows ==
    MulOverflows(cli.age, 24) \/ MulOverflows(WrappingMul(cli.age, 24), 3600)

Panic ==
    /\ pc' = "panicked"
    /\ exit_code' = Some(101)

SampleNow ==
    /\ pc = "clock"
    /\ now_samples' = now_samples + 1
    /\ \/ /\ clock < 0
          /\ Panic
          /\ UNCHANGED <<now_secs, age_threshold_secs, idx>>
       \/ /\ clock >= 0
          /\ ~ThresholdOverflows
          /\ now_secs' = clock
          /\ age_threshold_secs' = WrappingMul(WrappingMul(cli.age, 24), 3600)
          /\ pc' = "loop"
          /\ idx' = 1
          /\ UNCHANGED exit_code
       \/ /\ clock >= 0
          /\ ThresholdOverflows
          /\ now_secs' = clock
          /\ \E overflow_checks \in BOOLEAN :
                IF overflow_checks
                THEN /\ Panic
                     /\ UNCHANGED <<age_threshold_secs, idx>>
                ELSE /\ age_threshold_secs' =
                            WrappingMul(WrappingMul(cli.age, 24), 3600)
                     /\ pc' = "loop"
                     /\ idx' = 1
                     /\ UNCHANGED exit_code
    /\ UNCHANGED <<cli, clock, ticks, torrents, decisions, calls>>

(* Lines 96-144: one pass of the loop body over torrents[idx]. *)
OneYearSecs == 365 * 24 * 3600

(* The clock read again for every torrent. *)
ReferenceTimeResampled == clock

ReferenceTime == now_secs

TorrentAgeSecs(torrent) ==
    SaturatingSub(ReferenceTime, AsU64(UnwrapOr(torrent.added_on, 0)))

(* `<` in place of `<=`. *)
TooYoungStrict(torrent_age_secs) ==
    ~LeqLimbs(age_threshold_secs, U64FromNat(torrent_age_secs))

TooYoung(torrent_age_secs) ==
    LeqLimbs(U64FromNat(torrent_age_secs), age_threshold_secs)

(* unwrap_or_default() in place of `if let Some`. *)
RatioValueOrDefault(torrent) == Some(UnwrapOr(torrent.ratio, F64Zero(FALSE)))

RatioValue(torrent) == torrent.ratio

PredictedRatio(ratio_value, torrent_age_secs) ==
    F64Mul(ratio_value,
           F64Div(F64FromInt(OneYearSecs), F64FromInt(torrent_age_secs)))

(* `<=` in place of `<`. *)
BelowOrAtThreshold(predicted_ratio) == ~F64Lt(cli.ratio, predicted_ratio)

BelowThreshold(predicted_ratio) == F64Lt(predicted_ratio, cli.ratio)

(* The --dry-run flag not consulted. *)
DryRunIgnored == FALSE

DryRun == cli.dry_run

(* The whole list sent in place of the one hash. *)
DeleteHashesOfList(hash) ==
    [i \in 1..Len(torrents) |-> UnwrapOr(torrents[i].hash, "")]

DeleteHashes(hash) == <<hash>>

Decision(hash, age, action, predicted) ==
    [hash |-> hash, age |-> age, action |-> action,
     divisor |-> IF predicted = None THEN None ELSE Some(age),
     predicted |-> predicted]

ProcessTorrent ==
    /\ pc = "loop"
    /\ idx <= Len(torrents)
    /\ LET torrent == torrents[idx]
           hash == UnwrapOr(torrent.hash, "")
           torrent_age_secs == TorrentAgeSecs(torrent)
           ratio == RatioValue(torrent)
           predicted_ratio == PredictedRatio(ratio[1], torrent_age_secs)
       IN  \/ /\ TooYoung(torrent_age_secs)
              /\ decisions' = Append(decisions,
                     Decision(hash, torrent_age_secs, "TooYoung", None))
              /\ UNCHANGED <<pc, exit_code, calls>>
           \/ /\ ~TooYoung(torrent_age_secs)
              /\ ratio = None
              /\ decisions' = Append(decisions,
                     Decision(hash, torrent_age_secs, "Keep", None))
              /\ UNCHANGED <<pc, exit_code, calls>>
           \/ /\ ~TooYoung(torrent_age_secs)
              /\ ratio # None
              /\ ~BelowThreshold(predicted_ratio)
              /\ decisions' = Append(decisions,
                     Decision(hash, torrent_age_secs, "Keep", Some(predicted_ratio)))
              /\ UNCHANGED <<pc, exit_code, calls>>
           \/ /\ ~TooYoung(torrent_age_secs)
              /\ ratio # None
              /\ BelowThreshold(predicted_ratio)
              /\ DryRun
              /\ decisions' = Append(decisions,
                     Decision(hash, torrent_age_secs, "Remove", Some(predicted_ratio)))
              /\ UNCHANGED <<pc, exit_code, calls>>
           \/ /\ ~TooYoung(torrent_age_secs)
              /\ ratio # None
              /\ BelowThreshold(predicted_ratio)
              /\ ~DryRun
              /\ decisions' = Append(decisions,
                     Decision(hash, torrent_age_secs, "Remove", Some(predicted_ratio)))
              /\ \E ok \in BOOLEAN :
                    /\ calls' = Append(calls, [op |-> "delete_torrents", ok |-> ok,
                                               hashes |-> DeleteHashes(hash)])
                    /\ Try(ok, "loop")
    /\ idx' = idx + 1
    /\ UNCHANGED <<cli, clock, ticks, torrents, now_secs, now_samples,
                   age_threshold_secs>>

(* Lines 146-147: the list is exhausted, main returns Ok(()). *)
Finish ==
    /\ pc = "loop"
    /\ idx > Len(torrents)
    /\ pc' = "done"
    /\ exit_code' = Some(0)
    /\ UNCHANGED <<cli, clock, ticks, torrents, now_secs, now_samples,
                   age_threshold_secs, idx, decisions, calls>>

Next ==
    \/ ParseEndpoint
    \/ Login
    \/ GetTorrentList
    \/ SampleNow
    \/ ProcessTorrent
    \/ Finish
    \/ Tick

Spec == Init /\ [][Next]_vars

----------------------------------------------------------------------------
(* Vocabulary of the properties. *)

Evaluated == 1..Len(decisions)

IsDelete(call) == call.op = "delete_torrents"

Requests(hash) ==
    { <<i, j>> \in (1..Len(calls)) \X (1..(MaxTorrents + 2)) :
        /\ IsDelete(calls[i])
        /\ j <= Len(calls[i].hashes)
        /\ calls[i].hashes[j] = hash }

Requested(hash) == Requests(hash) # {}

(* age_threshold_days * 86400 as a natural number, without wrap-around *)
ExactThreshold == MulLimbs(MulLimbs(cli.age, 24, 0), 3600, 0)

WithinAgeFloor(age) == LeqLimbs(U64FromNat(age), ExactThreshold)

PastAgeFloor(age) == ~WithinAgeFloor(age)

(* The integer that an integer-valued f64 of magnitude below 2^25 holds *)
IntOf(x) ==
    IF IsZero(x) THEN 0
    ELSE (IF x.neg THEN -1 ELSE 1) * (x.hi \div 2^(-x.exp - 28))

(* ratio * 365 * 86400 and threshold * age as natural numbers of any size *)
ScaledRatio(ratio) == MulLimbs(U64FromNat(OneYearSecs), IntOf(ratio), 0)

ScaledThreshold(age, threshold) == MulLimbs(U64FromNat(age), IntOf(threshold), 0)

(* current_ratio * (365 * 86400 / age) < ratio_threshold over the rational *)
(* numbers, for age > 0 and a threshold >= 0                               *)
ProjectionBelow(ratio, age, threshold) ==
    \/ IntOf(ratio) < 0
    \/ ~LeqLimbs(ScaledThreshold(age, threshold), ScaledRatio(ratio))

(* current_ratio * (365 * 86400 / age) = ratio_threshold over the rational *)
(* numbers                                                                 *)
ProjectionEqual(ratio, age, threshold) ==
    /\ IntOf(ratio) >= 0
    /\ LeqLimbs(ScaledThreshold(age, threshold), ScaledRatio(ratio))
    /\ LeqLimbs(ScaledRatio(ratio), ScaledThreshold(age, threshold))

Max(a, b) == IF a > b THEN a ELSE b

----------------------------------------------------------------------------
(* C1 (P1, age floor): every evaluated item whose age_seconds is at most   *)
(* age_threshold_days * 86400 has action TooYoung and no removal request   *)
(* is issued for it, whatever its ratio.                                   *)
AgeFloor ==
    \A i \in Evaluated :
        WithinAgeFloor(decisions[i].age) =>
            /\ decisions[i].action = "TooYoung"
            /\ ~Requested(decisions[i].hash)

(* C2 (P5, simulate is inert): with --dry-run no removal request is ever   *)
(* issued.                                                                 *)
SimulateInert ==
    cli.dry_run => \A i \in 1..Len(calls) : ~IsDelete(calls[i])

SimulateInertWitness ==
    /\ cli.dry_run
    /\ pc = "done"
    /\ \E i \in Evaluated : decisions[i].action = "Remove"

(* C3 (P2, missing-ratio conservatism): an item past the age floor without *)
(* a ratio has action Keep and no removal request is issued for it.        *)
MissingRatioKept ==
    \A i \in Evaluated :
        (PastAgeFloor(decisions[i].age) /\ torrents[i].ratio = None) =>
            /\ decisions[i].action = "Keep"
            /\ decisions[i].divisor = None
            /\ ~Requested(decisions[i].hash)

MissingRatioKeptWitness ==
    /\ pc = "done"
    /\ ~cli.dry_run
    /\ F64Lt(F64Zero(FALSE), cli.ratio)
    /\ \E i \in Evaluated :
          /\ PastAgeFloor(decisions[i].age)
          /\ torrents[i].ratio = None
    /\ \E i \in 1..Len(calls) : IsDelete(calls[i])

(* C4: at the end of a run without --dry-run and without a failed call,    *)
(* every item of the list was evaluated, every item marked Remove had its  *)
(* hash requested exactly once and no other item's hash was requested.     *)
RemoveRequestedOnce ==
    (pc = "done" /\ ~cli.dry_run) =>
        /\ Len(decisions) = Len(torrents)
        /\ \A i \in Evaluated :
              /\ decisions[i].hash = UnwrapOr(torrents[i].hash, "")
              /\ decisions[i].action = "Remove" =>
                    Cardinality(Requests(decisions[i].hash)) = 1
              /\ decisions[i].action \in {"TooYoung", "Keep"} =>
                    Cardinality(Requests(decisions[i].hash)) = 0

RemoveRequestedOnceWitness ==
    /\ pc = "done"
    /\ ~cli.dry_run
    /\ Len(decisions) = 2
    /\ decisions[1].action = "Keep"
    /\ decisions[2].action = "Remove"

(* C5 as stated: an item past the age floor with a ratio is Remove exactly *)
(* when ratio * (365 * 86400 / age) < ratio_threshold and Keep otherwise,  *)
(* so a projection equal to the threshold is Keep; a Keep stays a Keep     *)
(* under every lower threshold.                                            *)
RemoveDecisionExact ==
    \A i \in Evaluated :
        (PastAgeFloor(decisions[i].age) /\ torrents[i].ratio # None) =>
            LET below == ProjectionBelow(torrents[i].ratio[1], decisions[i].age,
                                         cli.ratio)
            IN  /\ decisions[i].action = (IF below THEN "Remove" ELSE "Keep")
                /\ decisions[i].action = "Keep" =>
                      \A lower \in RatioChoices :
                          ~F64Lt(cli.ratio, lower) =>
                              ~ProjectionBelow(torrents[i].ratio[1],
                                               decisions[i].age, lower)

(* C5 as amended: the projection is the f64 value the run computed (the    *)
(* quotient rounded, then the product rounded); the item is Remove exactly *)
(* when that value is < ratio_threshold, so a computed projection equal to *)
(* the threshold is Keep; the decision is that of the exact comparison     *)
(* unless the exact projection equals the threshold, where rounding        *)
(* decides; a Keep stays a Keep under every lower threshold.               *)
RemoveDecision ==
    \A i \in Evaluated :
        (PastAgeFloor(decisions[i].age) /\ torrents[i].ratio # None) =>
            LET ratio == torrents[i].ratio[1]
                age == decisions[i].age
            IN  /\ decisions[i].predicted # None
                /\ decisions[i].action =
                      (IF F64Lt(decisions[i].predicted[1], cli.ratio)
                       THEN "Remove" ELSE "Keep")
                /\ ~ProjectionEqual(ratio, age, cli.ratio) =>
                      decisions[i].action =
                          (IF ProjectionBelow(ratio, age, cli.ratio)
                           THEN "Remove" ELSE "Keep")
                /\ decisions[i].action = "Keep" =>
                      \A lower \in RatioChoices :
                          ~F64Lt(cli.ratio, lower) =>
                              ~F64Lt(decisions[i].predicted[1], lower)

RemoveDecisionWitness ==
    \E i \in Evaluated :
        /\ PastAgeFloor(decisions[i].age)
        /\ torrents[i].ratio = Some(F64FromInt(1))
        /\ decisions[i].age = OneYearSecs
        /\ cli.ratio = F64FromInt(1)
        /\ decisions[i].predicted = Some(cli.ratio)
        /\ decisions[i].action = "Keep"

(* C6 (P4, no division by zero): whenever the projection divided by an     *)
(* age, that age was positive; an item of age 0 is TooYoung.               *)
NoDivisionByZero ==
    \A i \in Evaluated :
        /\ decisions[i].divisor # None => decisions[i].divisor[1] > 0
        /\ decisions[i].age = 0 =>
              (decisions[i].action = "TooYoung" /\ decisions[i].divisor = None)

NoDivisionByZeroWitness ==
    /\ cli.age = U64FromNat(0)
    /\ \E i \in Evaluated :
          /\ torrents[i].added_on = Some(ClockStart + 5)
          /\ decisions[i].age = 0
          /\ decisions[i].action = "TooYoung"
    /\ \E i \in Evaluated : decisions[i].divisor # None

(* C7 (fail-stop): a failed call is the last call of the run, the run ends *)
(* failed with a non-zero exit code, a failed login or listing leaves no   *)
(* item evaluated, and after a failed removal no further item is evaluated *)
(* and the removal is not requested again.                                 *)
FailStop ==
    \A i \in 1..Len(calls) :
        ~calls[i].ok =>
            /\ i = Len(calls)
            /\ pc = "failed"
            /\ exit_code # None
            /\ exit_code[1] # 0
            /\ ~IsDelete(calls[i]) => decisions = <<>>
            /\ IsDelete(calls[i]) =>
                  /\ decisions # <<>>
                  /\ calls[i].hashes = <<decisions[Len(decisions)].hash>>
                  /\ Cardinality(Requests(decisions[Len(decisions)].hash)) = 1

FailStopWitness ==
    /\ pc = "failed"
    /\ Len(calls) = 3
    /\ IsDelete(calls[3])
    /\ ~calls[3].ok
    /\ Len(decisions) = 1
    /\ Len(torrents) = 2

(* C8 (negative-ratio clamp): an item past the age floor with a negative   *)
(* ratio gets the action it would get with ratio 0: Keep when the          *)
(* threshold is 0, and then it is never requested for removal.             *)
NegativeRatioClamped ==
    \A i \in Evaluated :
        (/\ PastAgeFloor(decisions[i].age)
         /\ torrents[i].ratio # None
         /\ F64Lt(torrents[i].ratio[1], F64Zero(FALSE))) =>
            /\ decisions[i].action =
                  (IF ProjectionBelow(F64Zero(FALSE), decisions[i].age, cli.ratio)
                   THEN "Remove" ELSE "Keep")
            /\ IsZero(cli.ratio) => ~Requested(decisions[i].hash)

(* C9 (age computation): age_seconds = max(0, reference_time - added_at),  *)
(* an absent added_at counting as 0.                                       *)
AgeComputation ==
    \A i \in Evaluated :
        decisions[i].age = Max(0, now_secs - UnwrapOr(torrents[i].added_on, 0))

(* C10 (one reference clock): the clock is sampled once, before the first  *)
(* item, every age of the run is computed from that sample, and two items  *)
(* with the same added_on and ratio get the same age and action wherever   *)
(* they stand in the list.                                                 *)
OneReferenceClock ==
    /\ now_samples <= 1
    /\ decisions # <<>> => now_samples = 1
    /\ \A i \in Evaluated :
          decisions[i].age =
              SaturatingSub(now_secs, AsU64(UnwrapOr(torrents[i].added_on, 0)))
    /\ \A i, j \in Evaluated :
          (/\ torrents[i].added_on = torrents[j].added_on
           /\ torrents[i].ratio = torrents[j].ratio) =>
              /\ decisions[i].age = decisions[j].age
              /\ decisions[i].action = decisions[j].action

OneReferenceClockWitness ==
    /\ pc = "done"
    /\ clock > now_secs
    /\ Len(decisions) = 2
    /\ torrents[1].added_on = torrents[2].added_on
    /\ torrents[1].ratio = torrents[2].ratio
    /\ Len(calls) = 4
====
